---- MODULE Spec2Model ----
(***************************************************************************)
(* Authentication / session subsystem of the coffee-flavour application:   *)
(* AuthService (login, logout, updateAuthState, parseLoginResponse,        *)
(* handleLoginError), the part of UiStateService it drives (loading state  *)
(* and the shared error list), the HTTP error-handling interceptor and     *)
(* LoginPage.submit.                                                       *)
(*                                                                         *)
(* Further sections: the router with its guard, LocalDbService (the        *)
(* flavour records in one JSON item), the persisted error list of          *)
(* UiStateService and the form of ManageFlavourPage.  Each has its own     *)
(* initial condition and next-state relation over the same variables.      *)
(* Text-level sections: LocalDbService.generateId (the identifier as a     *)
(* string of hexadecimal digits), the login envelope as LoginPage.submit   *)
(* and AuthService.login build it (sanitizers, String.replace), and the    *)
(* loading indicator as BarcodeService.scan and ImageService.pick use it.  *)
(*                                                                         *)
(* JavaScript runs every callback to completion, so one action is one      *)
(* handler: a call of login/submit/logout, or the delivery of the          *)
(* transport's answer to a pending login (map, tap, catchError, finalize). *)
(***************************************************************************)
EXTENDS Integers, Sequences, FiniteSets, TLC

\* Largest number of login requests pending at the same time.
MaxInFlight == 2

\* environment.soap.retryAttempts, read through SOAP_CONFIG.NETWORK.
RETRY_ATTEMPTS == 3

\* error.status of an error object that has no status property.
NoStatus == -1

----------------------------------------------------------------------------
(* localStorage item 'coffee_isLoggedIn'.                                  *)

Absent == "absent"

\* What the item can hold when the service is constructed.
StoredValues == {Absent, "0", "1", "true"}

getFromStorage(item) == item = "1"

setStorage(value) == IF value THEN "1" ELSE "0"

\* One notification of the isLoggedIn$ observers: the value emitted, what
\* isLoggedInSync returns and what the storage item holds at that moment.
Notification(value, sync, persisted) ==
    [value |-> value, sync |-> sync, persisted |-> persisted]

updateAuthStateNotifyFirst(item, value, isAuthenticated) ==
    [storage  |-> setStorage(isAuthenticated),
     loggedIn |-> isAuthenticated,
     notified |-> <<Notification(isAuthenticated, isAuthenticated, item)>>]

\* setStorage, then BehaviorSubject.next: the subject stores the value and
\* then calls the observers.
updateAuthState(item, value, isAuthenticated) ==
    LET item1  == setStorage(isAuthenticated)
        value1 == isAuthenticated
    IN  [storage  |-> item1,
         loggedIn |-> value1,
         notified |-> <<Notification(isAuthenticated, value1, item1)>>]

logoutNoPersist(item, value) ==
    [storage  |-> item,
     loggedIn |-> FALSE,
     notified |-> <<Notification(FALSE, FALSE, item)>>]

logout(item, value) == updateAuthState(item, value, FALSE)

----------------------------------------------------------------------------
(* UiStateService: loading state and error list.                           *)

NoOperation == "none"

startLoading(operation) == [isLoading |-> TRUE, operation |-> operation]

stopLoadingKeep(l) == l

stopLoading(l) == [isLoading |-> FALSE, operation |-> NoOperation]

addError(errs, e) == Append(errs, e)

clearErrors(errs) == << >>

removeErrorFromIndex(errs, index) ==
    IF index >= 0 /\ index < Len(errs)
    THEN SubSeq(errs, 1, index)
    ELSE errs

\* newErrors.splice(index, 1) for an index inside the list.
removeError(errs, index) ==
    IF index >= 0 /\ index < Len(errs)
    THEN [i \in 1..(Len(errs) - 1) |->
             IF i <= index THEN errs[i] ELSE errs[i + 1]]
    ELSE errs

\* currentErrors.filter(error => error.type !== type).
clearErrorsByType(errs, type) == SelectSeq(errs, LAMBDA e : e.type # type)

createLoginError(type, message, details) ==
    [type |-> type, message |-> message, details |-> details]

createApiError(type, message, details) ==
    [type |-> type, message |-> message, details |-> details]

----------------------------------------------------------------------------
(* What the transport hands back for one request.                          *)

\* Where the LoginResult element of a response body is:
\*   nsDefault   in the service namespace through a default xmlns
\*   nsPrefixed  in the service namespace through a prefix (t:LoginResult)
\*   plain       in no namespace
\*   nonode      well-formed XML without a LoginResult element
\*   malformed   not XML: DOMParser answers a parsererror document
NodeKinds == {"nsDefault", "nsPrefixed", "plain"}

Texts == {"true", " TRUE ", "false"}

Body(xml, text) ==
    [kind |-> "body", xml |-> xml, text |-> text, status |-> 200, name |-> ""]

HttpError(status) ==
    [kind |-> "error", xml |-> "nonode", text |-> "", status |-> status,
     name |-> "HttpErrorResponse"]

TimeoutError ==
    [kind |-> "error", xml |-> "nonode", text |-> "", status |-> NoStatus,
     name |-> "TimeoutError"]

NoWire ==
    [kind |-> "none", xml |-> "nonode", text |-> "", status |-> NoStatus,
     name |-> ""]

Statuses == {0, 400, 500}

Outcomes ==
    {Body(x, t) : x \in NodeKinds, t \in Texts}
       \cup {Body("nonode", ""), Body("malformed", "")}
       \cup {HttpError(s) : s \in Statuses}
       \cup {TimeoutError}

\* What a further attempt of the same request would be answered; only a
\* failed attempt can have one.
RetryOutcomes(first) ==
    IF first.kind = "error"
    THEN {Body("nsDefault", "true"), HttpError(0)}
    ELSE {NoWire}

\* request$ of login: HttpClient on the web; CapacitorHttp on a native
\* platform, whose promise resolves with the response data for every HTTP
\* status and rejects with a plain error when no response arrives.
Transport(native, w) ==
    IF ~native THEN w
    ELSE IF w.kind = "error" /\ w.status > 0 THEN Body("nonode", "")
    ELSE IF w.kind = "error" THEN [w EXCEPT !.status = NoStatus, !.name = "Error"]
    ELSE w

\* String.trim().toLowerCase() on the texts above.
TrimLower(t) == IF t = " TRUE " THEN "true" ELSE t

parseLoginResponseNoNs(w) ==
    LET node == IF w.xml \in {"nsDefault", "plain"} THEN "found" ELSE "undefined"
        textContent == IF node = "found" THEN w.text ELSE ""
    IN  TrimLower(textContent) = "true"

\* getElementsByTagNameNS(NAMESPACE, 'LoginResult')[0], else
\* getElementsByTagName('LoginResult')[0] (which matches the qualified name).
parseLoginResponse(w) ==
    LET byNs   == w.xml \in {"nsDefault", "nsPrefixed"}
        byName == w.xml \in {"nsDefault", "plain"}
        node   == IF byNs \/ byName THEN "found" ELSE "undefined"
        textContent == IF node = "found" THEN w.text ELSE ""
    IN  TrimLower(textContent) = "true"

\* createApiErrorFromError of the error-handling interceptor.
createApiErrorFromError(w) ==
    IF w.name = "TimeoutError"
    THEN createApiError("timeout", "Request timed out. Please try again.", w.name)
    ELSE IF w.name = "HttpErrorResponse" /\ w.status = 0
    THEN createApiError("network", "Network connection failed. Please check your internet connection.", w.name)
    ELSE IF w.name = "HttpErrorResponse" /\ w.status >= 400 /\ w.status < 500
    THEN createApiError("unknown", "Client error", w.name)
    ELSE IF w.name = "HttpErrorResponse" /\ w.status >= 500
    THEN createApiError("server", "Server error occurred. Please try again later.", w.name)
    ELSE createApiError("unknown", "An unexpected error occurred", w.name)

\* The X-Handle-Own-Errors header login puts on its request.
HandleOwnErrors == TRUE

\* errorHandlingInterceptor: innermost of the three interceptors, so it sees
\* the backend's HttpErrorResponse but not the timeout raised outside it.
errorHandlingInterceptor(errs, native, w) ==
    IF ~native /\ w.kind = "error" /\ w.name = "HttpErrorResponse" /\ ~HandleOwnErrors
    THEN addError(errs, createApiErrorFromError(w))
    ELSE errs

AuthenticationError ==
    createLoginError("authentication",
                     "Invalid username or password. Please try again.",
                     "Authentication failed")

loginTapNoError(item, value, errs, success) ==
    LET a == updateAuthState(item, value, success)
    IN  [storage |-> a.storage, loggedIn |-> a.loggedIn, notified |-> a.notified,
         errors |-> errs,
         result |-> IF success THEN "true" ELSE "false"]

\* The tap callback of login.
loginTap(item, value, errs, success) ==
    LET a == updateAuthState(item, value, success)
    IN  [storage |-> a.storage, loggedIn |-> a.loggedIn, notified |-> a.notified,
         errors |-> IF success THEN errs ELSE addError(errs, AuthenticationError),
         result |-> IF success THEN "true" ELSE "false"]

handleLoginErrorKeepSession(item, value, errs, w) ==
    [storage |-> item, loggedIn |-> value, notified |-> << >>,
     errors |-> addError(errs, createLoginError("network",
                    "Unable to connect to the server. Please check your connection.",
                    "Network error")),
     result |-> "false"]

\* handleLoginError: of(false) is what the subscriber receives.
handleLoginError(item, value, errs, w) ==
    LET a == updateAuthState(item, value, FALSE)
        loginError ==
            IF w.status = 0
            THEN createLoginError("network",
                    "Unable to connect to the server. Please check your connection.",
                    "Network error")
            ELSE IF w.status >= 500
            THEN createLoginError("server",
                    "Server error occurred. Please try again later.",
                    "Server returned status")
            ELSE createLoginError("network",
                    "Login failed due to a connection error. Please try again.",
                    w.name)
    IN  [storage |-> a.storage, loggedIn |-> a.loggedIn, notified |-> a.notified,
         errors |-> addError(errs, loginError),
         result |-> "false"]

----------------------------------------------------------------------------
(* State.                                                                  *)

VARIABLES
    storage,    \* localStorage item coffee_isLoggedIn
    loggedIn,   \* value of the loggedIn$ BehaviorSubject (isLoggedInSync)
    loading,    \* UiStateService.loadingStateSignal
    errors,     \* UiStateService.errorsSignal
    inflight,   \* pending logins: id -> [attempts, concurrent]
    isNative,   \* Capacitor.isNativePlatform()
    last        \* the handler that ran last, with what it delivered

VARIABLES
    route,      \* the route the router has activated
    nav,        \* the last navigation: target and what the guard answered
    blob,       \* localStorage item 'CoffeeStock'
    dbLast,     \* arguments and return value of the last LocalDbService call
    errStore,   \* localStorage item 'coffee_ui_errors'
    now,        \* Date.now(), in milliseconds
    form        \* the controls of the flavour form

VARIABLES
    busy,       \* the scans and picks that have started and not returned
    request,    \* what LoginPage.submit was given and the envelope it sent
    generated   \* the last identifier of generateId and what it was made of

\* What only the services behind the flavour page and the request text of
\* the login page touch.
extVars == <<busy, request, generated>>

\* What the handlers of the authentication service never touch.
appVars == <<route, nav, blob, dbLast, errStore, now, form, extVars>>

vars == <<storage, loggedIn, loading, errors, inflight, isNative, last, appVars>>

NoNav == [target |-> "", allow |-> TRUE, redirect |-> "none"]

\* undefined.
JsUndefined == [t |-> "undefined", n |-> 0, s |-> ""]

\* localStorage.getItem(DB_KEY) === null.
MissingBlob == [kind |-> "missing", Flavours |-> << >>]

\* raw: what the call found in the item (the kind of the blob).
NoCall ==
    [id |-> JsUndefined, arg |-> JsUndefined, ret |-> JsUndefined, found |-> FALSE,
     raw |-> "missing"]

\* localStorage.getItem(STORAGE_KEY) === null.
NoStoredErrors == [kind |-> "absent", errors |-> << >>, timestamp |-> 0]

\* No flavour page is open.
NoForm == [open |-> FALSE]

\* No login form has been submitted.
NoRequest == [username |-> << >>, password |-> << >>, body |-> << >>]

\* generateId has not been called.
NoId == [crypto |-> FALSE, random |-> << >>, text |-> << >>]

ExtIdle ==
    /\ busy = {}
    /\ request = NoRequest
    /\ generated = NoId

\* The rest of the application before anything has been done with it.
AppIdle ==
    /\ route = ""
    /\ nav = NoNav
    /\ blob = MissingBlob
    /\ dbLast = NoCall
    /\ errStore = NoStoredErrors
    /\ now = 0
    /\ form = NoForm
    /\ ExtIdle

Ids == 1..MaxInFlight

Event(op, id, req, wire, retry, result, notified) ==
    [op |-> op, id |-> id, attempts |-> req.attempts,
     concurrent |-> req.concurrent, wire |-> wire, retry |-> retry,
     result |-> result, notified |-> notified]

NoReq == [attempts |-> 0, concurrent |-> FALSE]

Init ==
    /\ storage \in StoredValues
    /\ loggedIn = getFromStorage(storage)
    /\ loading = [isLoading |-> FALSE, operation |-> NoOperation]
    /\ errors = << >>
    /\ inflight = << >>
    /\ isNative \in BOOLEAN
    /\ last = Event("init", 0, NoReq, NoWire, NoWire, "none", << >>)
    /\ AppIdle

\* AuthService.login called and subscribed to: errors cleared, loading
\* started, one request sent.
login ==
    /\ Cardinality(DOMAIN inflight) < MaxInFlight
    /\ LET id  == CHOOSE i \in Ids : i \notin DOMAIN inflight
           req == [attempts |-> 1, concurrent |-> DOMAIN inflight # {}]
       IN  /\ errors' = clearErrors(errors)
           /\ loading' = startLoading("Authenticating...")
           /\ inflight' = [i \in DOMAIN inflight \cup {id} |->
                              IF i = id THEN req ELSE inflight[i]]
           /\ last' = Event("login", id, req, NoWire, NoWire, "none", << >>)
    /\ UNCHANGED <<storage, loggedIn, isNative>>
    /\ UNCHANGED appVars

\* LoginPage.submit.
submit(formInvalid) ==
    IF formInvalid \/ loading.isLoading
    THEN /\ last' = Event("submitIgnored", 0, NoReq, NoWire, NoWire, "none", << >>)
         /\ UNCHANGED <<storage, loggedIn, loading, errors, inflight, isNative>>
         /\ UNCHANGED appVars
    ELSE login

\* The transport answers the request of login id with `first` (and would
\* answer `retry` to another attempt): map, tap, catchError, then finalize.
respond(id, first, retry) ==
    /\ id \in DOMAIN inflight
    /\ LET w    == Transport(isNative, first)
           errs == errorHandlingInterceptor(errors, isNative, w)
           r    == IF w.kind = "body"
                   THEN loginTap(storage, loggedIn, errs, parseLoginResponse(w))
                   ELSE handleLoginError(storage, loggedIn, errs, w)
       IN  /\ storage' = r.storage
           /\ loggedIn' = r.loggedIn
           /\ errors' = r.errors
           /\ loading' = stopLoading(loading)
           /\ inflight' = [i \in DOMAIN inflight \ {id} |-> inflight[i]]
           /\ last' = Event("loginDone", id, inflight[id], w, retry,
                            r.result, r.notified)
    /\ UNCHANGED isNative
    /\ UNCHANGED appVars

\* AuthService.logout (FlavoursPage.logout).
Logout ==
    /\ LET a == logout(storage, loggedIn)
       IN  /\ storage' = a.storage
           /\ loggedIn' = a.loggedIn
           /\ last' = Event("logout", 0, NoReq, NoWire, NoWire, "none", a.notified)
    /\ UNCHANGED <<loading, errors, inflight, isNative>>
    /\ UNCHANGED appVars

\* updateAuthState called on its own.
UpdateAuthState(isAuthenticated) ==
    /\ LET a == updateAuthState(storage, loggedIn, isAuthenticated)
       IN  /\ storage' = a.storage
           /\ loggedIn' = a.loggedIn
           /\ last' = Event("updateAuthState", 0, NoReq, NoWire, NoWire, "none",
                            a.notified)
    /\ UNCHANGED <<loading, errors, inflight, isNative>>
    /\ UNCHANGED appVars

\* LoginPage.dismissError.
DismissError(index) ==
    /\ errors' = removeError(errors, index)
    /\ last' = Event("dismissError", 0, NoReq, NoWire, NoWire, "none", << >>)
    /\ UNCHANGED <<storage, loggedIn, loading, inflight, isNative>>
    /\ UNCHANGED appVars

\* LoginPage.ngOnInit / clearAllErrors.
ClearAllErrors ==
    /\ errors' = clearErrors(errors)
    /\ last' = Event("clearErrors", 0, NoReq, NoWire, NoWire, "none", << >>)
    /\ UNCHANGED <<storage, loggedIn, loading, inflight, isNative>>
    /\ UNCHANGED appVars

Login == login

Respond == \E id \in Ids, first \in Outcomes : \E retry \in RetryOutcomes(first) :
               respond(id, first, retry)

Submit == \E formInvalid \in BOOLEAN : submit(formInvalid)

SetAuthState == \E b \in BOOLEAN : UpdateAuthState(b)

Dismiss == \E index \in 0..MaxInFlight : DismissError(index)

\* The service driven directly, as its unit tests drive it.
Next ==
    \/ Login
    \/ Respond
    \/ Logout
    \/ SetAuthState
    \/ Dismiss
    \/ ClearAllErrors

Spec == Init /\ [][Next]_vars

\* The application: logins only come from the login page.
NextApp ==
    \/ Submit
    \/ Respond
    \/ Logout
    \/ Dismiss
    \/ ClearAllErrors

SpecApp == Init /\ [][NextApp]_vars

\* Every request is answered in the end (the transport's timeout at the
\* latest).
\* Pending login `id` leaves the pending set: in Next this is the delivery
\* of its answer, respond(id, first, retry), and it can happen exactly
\* while the login is pending.
Delivered(id) ==
    /\ id \in DOMAIN inflight
    /\ inflight' = [i \in DOMAIN inflight \ {id} |-> inflight[i]]

SpecLive == Spec /\ \A id \in Ids : WF_inflight(Delivered(id))

----------------------------------------------------------------------------
(* Routing: the routes of app.routes.ts and the guard in front of the      *)
(* protected ones.                                                         *)

Routes == {"", "login", "flavours", "manage-flavours", "manage-flavours/:id"}

\* The routes declared with canActivate: [authGuard].
ProtectedRoutes == {"flavours", "manage-flavours", "manage-flavours/:id"}

authGuardAllowsAll(isLoggedInSync) ==
    [target |-> "", allow |-> TRUE, redirect |-> "none"]

\* authGuard: true when logged in; otherwise activation is refused and the
\* router is sent to /login (navigateByUrl and false in one version of the
\* guard, a UrlTree for /login in the other).
authGuard(isLoggedInSync) ==
    IF isLoggedInSync
    THEN [target |-> "", allow |-> TRUE, redirect |-> "none"]
    ELSE [target |-> "", allow |-> FALSE, redirect |-> "login"]

canActivate(target, isLoggedInSync) ==
    IF target \in ProtectedRoutes
    THEN [authGuard(isLoggedInSync) EXCEPT !.target = target]
    ELSE [target |-> target, allow |-> TRUE, redirect |-> "none"]

\* The router is asked for `target`.
Navigate(target) ==
    /\ LET g == canActivate(target, loggedIn)
       IN  /\ nav' = g
           /\ route' = IF g.allow THEN target ELSE g.redirect
           /\ last' = Event("navigate", 0, NoReq, NoWire, NoWire,
                            IF g.allow THEN "true" ELSE "false", << >>)
    /\ UNCHANGED <<storage, loggedIn, loading, errors, inflight, isNative>>
    /\ UNCHANGED <<blob, dbLast, errStore, now, form>>
    /\ UNCHANGED extVars

\* FlavoursPage.logout: AuthService.logout, then navigateByUrl('/login').
FlavoursLogout ==
    /\ route = "flavours"
    /\ LET a == logout(storage, loggedIn)
           g == canActivate("login", a.loggedIn)
       IN  /\ storage' = a.storage
           /\ loggedIn' = a.loggedIn
           /\ nav' = g
           /\ route' = "login"
           /\ last' = Event("logout", 0, NoReq, NoWire, NoWire, "none", a.notified)
    /\ UNCHANGED <<loading, errors, inflight, isNative>>
    /\ UNCHANGED <<blob, dbLast, errStore, now, form>>
    /\ UNCHANGED extVars

Goto == \E target \in Routes : Navigate(target)

\* The application with its router.
NextGuard ==
    \/ Submit
    \/ Respond
    \/ FlavoursLogout
    \/ Goto

SpecGuard == Init /\ [][NextGuard]_vars

----------------------------------------------------------------------------
(* JavaScript values, as far as the record store and the flavour form      *)
(* handle them.  A number carries n in thousandths.                        *)

JsNumber(n) == [t |-> "number", n |-> n, s |-> ""]
JsNaN == [t |-> "NaN", n |-> 0, s |-> ""]
JsInfinity == [t |-> "Infinity", n |-> 0, s |-> ""]
JsString(s) == [t |-> "string", n |-> 0, s |-> s]
JsNull == [t |-> "null", n |-> 0, s |-> ""]

\* The string toFixed(2) gives for the number of n thousandths (n a whole
\* number of hundredths).
JsFixed(n) == [t |-> "string", n |-> n, s |-> "fixed"]

\* Number(s) of the strings that occur.
StringToNumber(s) ==
    IF s = "" THEN JsNumber(0)
    ELSE IF s = "12" THEN JsNumber(12000)
    ELSE IF s = "0.02" THEN JsNumber(20)
    ELSE JsNaN

\* Number(v).
Number(v) ==
    CASE v.t = "number"    -> v
      [] v.t = "NaN"       -> v
      [] v.t = "Infinity"  -> v
      [] v.t = "string"    -> IF v.s = "fixed" THEN JsNumber(v.n)
                              ELSE StringToNumber(v.s)
      [] v.t = "null"      -> JsNumber(0)
      [] v.t = "undefined" -> JsNaN

\* Number(v) || 0: NaN and 0 are the falsy numbers.
NumberOrZero(v) ==
    LET y == Number(v)
    IN  IF y = JsNaN \/ y = JsNumber(0) THEN JsNumber(0) ELSE y

\* JSON.parse(JSON.stringify(v)) of a property value: NaN and Infinity are
\* written as null, an undefined property is left out.
JsonValue(v) ==
    IF v.t \in {"NaN", "Infinity"} THEN JsNull ELSE v

----------------------------------------------------------------------------
(* LocalDbService: the flavour records kept as one JSON blob.  A record is *)
(* a function from field names to values; barcode, photoName and photoData *)
(* are copied like name and are left out.                                  *)

MaxRecords == 2

Fields == {"id", "name", "pricePerBox", "pricePerPod", "podsPerBox"}

Flavour(id, name, pricePerBox, pricePerPod, podsPerBox) ==
    [id |-> id, name |-> name, pricePerBox |-> pricePerBox,
     pricePerPod |-> pricePerPod, podsPerBox |-> podsPerBox]

\* An item that JSON.parse rejects, or that has no Flavours array.
CorruptBlob == [kind |-> "corrupt", Flavours |-> << >>]

\* JSON.parse(JSON.stringify(record)).
JsonRecord(r) == [f \in DOMAIN r |-> JsonValue(r[f])]

\* writeDb: the whole collection is serialised into the item.
writeDb(db) == [kind |-> "db", Flavours |-> [i \in DOMAIN db |-> JsonRecord(db[i])]]

ensureDbNoHeal(b) ==
    IF b.kind = "db"
    THEN [blob |-> b, db |-> b.Flavours]
    ELSE [blob |-> b, db |-> << >>]

\* ensureDb: the parsed item, or an empty collection written in its place.
ensureDb(b) ==
    IF b.kind = "db"
    THEN [blob |-> b, db |-> b.Flavours]
    ELSE [blob |-> writeDb(<< >>), db |-> << >>]

getFlavours(b) == ensureDb(b).db

\* Array.findIndex(f => f.id === id), 0 for -1.
findIndex(db, id) ==
    LET I == {i \in DOMAIN db : db[i].id = id}
    IN  IF I = {} THEN 0 ELSE CHOOSE i \in I : \A j \in I : i <= j

getFlavourOrFirst(b, id) ==
    LET db == getFlavours(b)
        idx == findIndex(db, id)
    IN  IF idx # 0 THEN db[idx]
        ELSE IF Len(db) > 0 THEN db[1]
        ELSE JsUndefined

\* Array.find(f => f.id === id).
getFlavour(b, id) ==
    LET db == getFlavours(b)
        idx == findIndex(db, id)
    IN  IF idx = 0 THEN JsUndefined ELSE db[idx]

\* The n-th identifier generateId has produced: 128 random bits, taken to
\* differ from every identifier in the collection.
GeneratedId(n) == [t |-> "string", n |-> n, s |-> "uuid"]

generateId(db) ==
    LET used == {db[i].id : i \in DOMAIN db}
        n == CHOOSE k \in 1..(Len(db) + 1) :
                /\ GeneratedId(k) \notin used
                /\ \A m \in 1..(k - 1) : GeneratedId(m) \in used
    IN  GeneratedId(n)

addFlavour(b, record) ==
    LET db == ensureDb(b).db
        id == IF record.id.t = "string" /\ record.id.s # ""
              THEN record.id
              ELSE generateId(db)
        newRecord == Flavour(id, record.name,
                             NumberOrZero(record.pricePerBox),
                             NumberOrZero(record.pricePerPod),
                             NumberOrZero(record.podsPerBox))
    IN  [blob |-> writeDb(Append(db, newRecord)), ret |-> newRecord]

updateFlavourNoWrite(b, id, updates) ==
    LET e == ensureDb(b)
        idx == findIndex(e.db, id)
        merged == [f \in Fields |->
                     IF f \in DOMAIN updates THEN updates[f] ELSE e.db[idx][f]]
    IN  IF idx = 0
        THEN [blob |-> e.blob, ret |-> JsUndefined]
        ELSE [blob |-> e.blob, ret |-> merged]

\* { ...db.Flavours[idx], ...updates }: every property of updates wins.
updateFlavour(b, id, updates) ==
    LET e == ensureDb(b)
        idx == findIndex(e.db, id)
        merged == [f \in Fields |->
                     IF f \in DOMAIN updates THEN updates[f] ELSE e.db[idx][f]]
    IN  IF idx = 0
        THEN [blob |-> e.blob, ret |-> JsUndefined]
        ELSE [blob |-> writeDb([e.db EXCEPT ![idx] = merged]), ret |-> merged]

deleteFlavourFirstOnly(b, id) ==
    LET db == ensureDb(b).db
        idx == findIndex(db, id)
    IN  [blob |-> writeDb([i \in 1..(Len(db) - (IF idx = 0 THEN 0 ELSE 1)) |->
                             IF idx = 0 \/ i < idx THEN db[i] ELSE db[i + 1]]),
         ret |-> JsUndefined]

deleteFlavour(b, id) ==
    LET db == ensureDb(b).db
    IN  [blob |-> writeDb(SelectSeq(db, LAMBDA f : f.id # id)),
         ret |-> JsUndefined]

clearAll == [blob |-> writeDb(<< >>), ret |-> JsUndefined]

\* Records handed to addFlavour.
AddInputs ==
    { Flavour(JsUndefined, JsString("Lungo"), JsString("abc"), JsNumber(3000),
              JsNumber(10000)),
      Flavour(JsString(""), JsString("Lungo"), JsString("abc"), JsNumber(3000),
              JsNumber(10000)),
      Flavour(JsString("a"), JsString("Ristretto"), JsString("12"), JsNumber(1000),
              JsNumber(12000)),
      Flavour(JsString("a"), JsString("Decaf"), JsNumber(-5000), JsNaN, JsInfinity) }

\* Partial records handed to updateFlavour.
UpdateInputs ==
    { [name |-> JsString("X")],
      [id |-> JsString("b")],
      [pricePerBox |-> JsString("abc"), pricePerPod |-> JsNaN] }

IdInputs == {JsString("a"), JsString("b"), GeneratedId(1)}

\* A call of the service: the item it leaves and what it returns.
DbCall(op, id, arg, r, found) ==
    /\ blob' = r.blob
    /\ dbLast' = [id |-> id, arg |-> arg, ret |-> r.ret, found |-> found,
                  raw |-> blob.kind]
    /\ last' = Event(op, 0, NoReq, NoWire, NoWire, "none", << >>)
    /\ UNCHANGED <<storage, loggedIn, loading, errors, inflight, isNative>>
    /\ UNCHANGED <<route, nav, errStore, now, form>>
    /\ UNCHANGED extVars

Has(b, id) == findIndex(getFlavours(b), id) # 0

AddFlavour(record) ==
    /\ Len(getFlavours(blob)) < MaxRecords
    /\ DbCall("addFlavour", record.id, record, addFlavour(blob, record),
              Has(blob, record.id))

UpdateFlavour(id, updates) ==
    DbCall("updateFlavour", id, updates, updateFlavour(blob, id, updates),
           Has(blob, id))

DeleteFlavour(id) ==
    DbCall("deleteFlavour", id, JsUndefined, deleteFlavour(blob, id), Has(blob, id))

ClearAll == DbCall("clearAll", JsUndefined, JsUndefined, clearAll, FALSE)

GetFlavour(id) ==
    DbCall("getFlavour", id, JsUndefined,
           [blob |-> ensureDb(blob).blob, ret |-> getFlavour(blob, id)],
           Has(blob, id))

Add == \E record \in AddInputs : AddFlavour(record)
Update == \E id \in IdInputs, updates \in UpdateInputs : UpdateFlavour(id, updates)
Delete == \E id \in IdInputs : DeleteFlavour(id)
Get == \E id \in IdInputs : GetFlavour(id)

\* The item is removed or overwritten from outside the service.
CorruptItem ==
    /\ blob.kind = "db"
    /\ blob' \in {MissingBlob, CorruptBlob}
    /\ last' = Event("corruptItem", 0, NoReq, NoWire, NoWire, "none", << >>)
    /\ UNCHANGED <<storage, loggedIn, loading, errors, inflight, isNative>>
    /\ UNCHANGED <<route, nav, dbLast, errStore, now, form>>
    /\ UNCHANGED extVars

InitDb ==
    /\ storage = "1"
    /\ loggedIn = TRUE
    /\ loading = [isLoading |-> FALSE, operation |-> NoOperation]
    /\ errors = << >>
    /\ inflight = << >>
    /\ isNative = FALSE
    /\ last = Event("init", 0, NoReq, NoWire, NoWire, "none", << >>)
    /\ route = "flavours"
    /\ nav = canActivate("flavours", TRUE)
    /\ blob \in {MissingBlob, CorruptBlob, writeDb(<< >>)}
    /\ dbLast = NoCall
    /\ errStore = NoStoredErrors
    /\ now = 0
    /\ form = NoForm
    /\ ExtIdle

NextDb ==
    \/ Add
    \/ Update
    \/ Delete
    \/ ClearAll
    \/ Get
    \/ CorruptItem

SpecDb == InitDb /\ [][NextDb]_vars

----------------------------------------------------------------------------
(* LocalDbService.generateId: the text of an identifier.  A string is the  *)
(* sequence of its characters.                                             *)

HexDigits ==
    <<"0", "1", "2", "3", "4", "5", "6", "7", "8", "9", "a", "b", "c", "d", "e", "f">>

\* v.toString(16) for v >= 0.
RECURSIVE toString16(_)
toString16(v) ==
    IF v < 16 THEN <<HexDigits[v + 1]>>
    ELSE toString16(v \div 16) \o <<HexDigits[(v % 16) + 1]>>

\* 'xxxxxxxx-xxxx-4xxx-yxxx-xxxxxxxxxxxx'
UuidTemplate ==
    [i \in 1..36 |->
        IF i \in {9, 14, 19, 24} THEN "-"
        ELSE IF i = 15 THEN "4"
        ELSE IF i = 20 THEN "y"
        ELSE "x"]

\* What the random source hands to the k-th callback of replace, as a byte:
\* the element of the Uint8Array, or Math.random() in 256ths.
RandomByte(first, step, k) == (first + (k - 1) * step) % 256

\* r of the callback: (byte & 0x0f) | 0x10 with crypto.getRandomValues,
\* (Math.random() * 16) | 0 without.
RandomNibble(crypto, byte) ==
    IF crypto THEN (byte % 16) + 16 ELSE byte \div 16

\* The callback of replace(/[xy]/g, ...): v = c === 'x' ? r : (r & 0x3) | 0x8.
ReplaceXY(c, r) ==
    IF c = "x" THEN toString16(r) ELSE toString16((r % 4) + 8)

\* The template from position i on, k callbacks having run.
RECURSIVE generateIdFrom(_, _, _, _, _)
generateIdFrom(i, k, crypto, first, step) ==
    IF i > Len(UuidTemplate) THEN << >>
    ELSE IF UuidTemplate[i] \in {"x", "y"}
    THEN ReplaceXY(UuidTemplate[i], RandomNibble(crypto, RandomByte(first, step, k + 1)))
            \o generateIdFrom(i + 1, k + 1, crypto, first, step)
    ELSE <<UuidTemplate[i]>> \o generateIdFrom(i + 1, k, crypto, first, step)

\* generateId as text, for a random source that starts at `first` and goes
\* on in steps of `step`.
generateIdText(crypto, first, step) == generateIdFrom(1, 0, crypto, first, step)

\* Bytes that between them give every low and every high half-byte, and
\* the steps from one callback's byte to the next.
Bytes == {17 * b : b \in 0..15}
Steps == {0, 17}

\* addFlavour of a record without id: the record is stored under the
\* identifier generateId returns.
AddFlavourWithoutId(record, crypto, first, step) ==
    /\ record.id = JsUndefined
    /\ Len(getFlavours(blob)) < MaxRecords
    /\ LET r == addFlavour(blob, record)
       IN  /\ blob' = r.blob
           /\ dbLast' = [id |-> record.id, arg |-> record, ret |-> r.ret,
                         found |-> FALSE, raw |-> blob.kind]
    /\ generated' = [crypto |-> crypto, random |-> <<first, step>>,
                     text |-> generateIdText(crypto, first, step)]
    /\ last' = Event("addFlavour", 0, NoReq, NoWire, NoWire, "none", << >>)
    /\ UNCHANGED <<storage, loggedIn, loading, errors, inflight, isNative>>
    /\ UNCHANGED <<route, nav, errStore, now, form, busy, request>>

AddWithoutId ==
    \E record \in AddInputs, crypto \in BOOLEAN, first \in Bytes, step \in Steps :
        AddFlavourWithoutId(record, crypto, first, step)

NextId ==
    \/ AddWithoutId
    \/ ClearAll

SpecId == InitDb /\ [][NextId]_vars

----------------------------------------------------------------------------
(* UiStateService: the error list and its copy in localStorage.            *)

MaxErrors == 2
MaxWindows == 2
MaxDrift == 1

ERROR_PERSISTENCE_DURATION == 300000

\* The instants at which something happens: around the multiples of the
\* retention window.
ClockValues ==
    {w * ERROR_PERSISTENCE_DURATION + k : w \in 0..MaxWindows, k \in 0..MaxDrift}

\* A Date, and the ISO string JSON.stringify writes for it; both carry the
\* milliseconds since the epoch.
Date(ms) == [date |-> ms]
toJSON(d) == [iso |-> d.date]
NewDate(str) == [date |-> str.iso]

\* ErrorFactory: the error with timestamp: new Date().
Timestamped(e, t) ==
    [type |-> e.type, message |-> e.message, details |-> e.details,
     timestamp |-> Date(t)]

\* An item that JSON.parse rejects.
CorruptStoredErrors == [kind |-> "corrupt", errors |-> << >>, timestamp |-> 0]

\* persistErrors: an empty list removes the item, any other list is written
\* with the time of writing.
persistErrors(errs, t) ==
    IF Len(errs) = 0
    THEN NoStoredErrors
    ELSE [kind |-> "state",
          errors |-> [i \in DOMAIN errs |->
                        [errs[i] EXCEPT !.timestamp = toJSON(@)]],
          timestamp |-> t]

loadPersistedErrorsNoExpiry(store, t) ==
    IF store.kind = "absent" THEN [errors |-> << >>, store |-> store]
    ELSE IF store.kind = "corrupt"
    THEN [errors |-> << >>, store |-> NoStoredErrors]
    ELSE [errors |-> [i \in DOMAIN store.errors |->
                        [store.errors[i] EXCEPT !.timestamp = NewDate(@)]],
          store |-> store]

\* loadPersistedErrors: the list and what is left in localStorage.
loadPersistedErrors(store, t) ==
    IF store.kind = "absent" THEN [errors |-> << >>, store |-> store]
    ELSE IF store.kind = "corrupt"
    THEN [errors |-> << >>, store |-> NoStoredErrors]
    ELSE IF t - store.timestamp > ERROR_PERSISTENCE_DURATION
    THEN [errors |-> << >>, store |-> NoStoredErrors]
    ELSE [errors |-> [i \in DOMAIN store.errors |->
                        [store.errors[i] EXCEPT !.timestamp = NewDate(@)]],
          store |-> store]

ErrorTypes == {"network", "authentication"}

\* A handler of the service, called with an index or a type: when it sets
\* the error signal (`set`), the effect of the constructor persists the new
\* list.
SetErrors(op, index, type, errs, set) ==
    /\ errors' = errs
    /\ errStore' = IF set THEN persistErrors(errs, now) ELSE errStore
    /\ last' = Event(op, index, NoReq, NoWire, NoWire, type, << >>)
    /\ UNCHANGED <<storage, loggedIn, loading, inflight, isNative>>
    /\ UNCHANGED <<route, nav, blob, dbLast, now, form>>
    /\ UNCHANGED extVars

AddError(type) ==
    /\ Len(errors) < MaxErrors
    /\ SetErrors("addError", 0, type,
                 addError(errors, Timestamped(createLoginError(type, "message", "details"), now)),
                 TRUE)

RemoveError(index) ==
    SetErrors("removeError", index, "none", removeError(errors, index),
              index >= 0 /\ index < Len(errors))

ClearErrors == SetErrors("clearErrors", 0, "none", clearErrors(errors), TRUE)

ClearErrorsByType(type) ==
    SetErrors("clearErrorsByType", 0, type, clearErrorsByType(errors, type), TRUE)

\* Time passes.
Tick ==
    /\ now' \in {t \in ClockValues : t > now}
    /\ last' = Event("tick", 0, NoReq, NoWire, NoWire, "none", << >>)
    /\ UNCHANGED <<storage, loggedIn, loading, errors, inflight, isNative>>
    /\ UNCHANGED <<route, nav, blob, dbLast, errStore, form>>
    /\ UNCHANGED extVars

\* The application is started again: a new UiStateService loads the list
\* and its effect persists what was loaded.
NewUiState ==
    /\ LET l == loadPersistedErrors(errStore, now)
       IN  /\ errors' = l.errors
           /\ errStore' = persistErrors(l.errors, now)
    /\ loading' = [isLoading |-> FALSE, operation |-> NoOperation]
    /\ last' = Event("loadPersistedErrors", 0, NoReq, NoWire, NoWire, "none", << >>)
    /\ UNCHANGED <<storage, loggedIn, inflight, isNative>>
    /\ UNCHANGED <<route, nav, blob, dbLast, now, form>>
    /\ UNCHANGED extVars

\* localStorage is written from outside the service.
Corrupt ==
    /\ errStore.kind = "state"
    /\ errStore' = CorruptStoredErrors
    /\ last' = Event("corrupt", 0, NoReq, NoWire, NoWire, "none", << >>)
    /\ UNCHANGED <<storage, loggedIn, loading, errors, inflight, isNative>>
    /\ UNCHANGED <<route, nav, blob, dbLast, now, form>>
    /\ UNCHANGED extVars

PushError == \E type \in ErrorTypes : AddError(type)
Splice == \E index \in -1..MaxErrors : RemoveError(index)
Filter == \E type \in ErrorTypes \cup {"server"} : ClearErrorsByType(type)

InitErrors ==
    /\ storage \in {Absent, "1"}
    /\ loggedIn = getFromStorage(storage)
    /\ loading = [isLoading |-> FALSE, operation |-> NoOperation]
    /\ errors = << >>
    /\ inflight = << >>
    /\ isNative = FALSE
    /\ last = Event("init", 0, NoReq, NoWire, NoWire, "none", << >>)
    /\ AppIdle

NextErrors ==
    \/ PushError
    \/ Splice
    \/ Filter
    \/ ClearErrors
    \/ Tick
    \/ NewUiState
    \/ Corrupt

SpecErrors == InitErrors /\ [][NextErrors]_vars

----------------------------------------------------------------------------
(* ManageFlavourPage: the flavour form and what onSave stores.             *)

\* Largest number of records created through the form.
MaxSaved == 1

Abs(n) == IF n < 0 THEN -n ELSE n

\* x.toFixed(2) for x of n thousandths: the nearest hundredth, the larger
\* in magnitude of two equally near; in thousandths.
toFixed2(n) ==
    LET h == (Abs(n) + 5) \div 10
    IN  IF n < 0 THEN -(10 * h) ELSE 10 * h

\* (a / b).toFixed(2) for b > 0, in thousandths.
Round2(a, b) ==
    LET h == (200 * Abs(a) + b) \div (2 * b)
    IN  IF a < 0 THEN -(10 * h) ELSE 10 * h

\* parseFloat(v).
parseFloat(v) ==
    IF v.t \in {"number", "Infinity"} THEN v
    ELSE IF v.t = "string" /\ v.s # "" THEN Number(v)
    ELSE JsNaN

\* (value.name || '').trim() on the names that occur.
Trim(v) ==
    IF v.t # "string" THEN JsString("")
    ELSE IF v.s = " Lungo " THEN JsString("Lungo")
    ELSE v

\* podsPerBox > 0 ? Number((pricePerBox / podsPerBox).toFixed(2)) : 0
\* on the results of Number(x) || 0.
PricePerPod(pricePerBox, podsPerBox) ==
    IF podsPerBox.t = "Infinity"
    THEN IF pricePerBox.t = "Infinity" THEN JsNaN ELSE JsNumber(0)
    ELSE IF podsPerBox.n > 0
    THEN IF pricePerBox.t = "Infinity" THEN JsInfinity
         ELSE JsNumber(Round2(pricePerBox.n, podsPerBox.n))
    ELSE JsNumber(0)

recalculatePricePerPod(f) ==
    [f EXCEPT !.pricePerPod = PricePerPod(NumberOrZero(f.pricePerBox),
                                          NumberOrZero(f.podsPerBox))]

\* The form of a page opened for route parameter id (JsNull: none).
NewForm(id) ==
    [open |-> TRUE, id |-> id, name |-> JsString(""), pricePerBox |-> JsNumber(0),
     pricePerPod |-> JsNumber(0), podsPerBox |-> JsNumber(0)]

\* ngOnInit: in edit mode the record's values are patched in; then the
\* initial calculation.
ngOnInit(b, id) ==
    LET record == IF id = JsNull THEN JsUndefined ELSE getFlavour(b, id)
        f == NewForm(id)
    IN  recalculatePricePerPod(
            IF DOMAIN record = Fields
            THEN [f EXCEPT !.name = record.name,
                           !.pricePerBox = record.pricePerBox,
                           !.pricePerPod = record.pricePerPod,
                           !.podsPerBox = record.podsPerBox]
            ELSE f)

\* A control is given a value by the user; the valueChanges subscriptions
\* of pricePerBox and podsPerBox recalculate.
setValue(f, controlName, value) ==
    LET g == [f EXCEPT ![controlName] = value]
    IN  IF controlName \in {"pricePerBox", "podsPerBox"}
        THEN recalculatePricePerPod(g)
        ELSE g

\* formatDecimal: setValue(num.toFixed(2), { emitEvent: false }).
formatDecimal(f, controlName) ==
    LET value == f[controlName]
        num == parseFloat(value)
    IN  IF value.t \in {"null", "undefined"} \/ value = JsString("") THEN f
        ELSE IF num.t = "NaN" THEN f
        ELSE IF num.t = "Infinity" THEN [f EXCEPT ![controlName] = JsString("Infinity")]
        ELSE [f EXCEPT ![controlName] = JsFixed(toFixed2(num.n))]

\* Validators.min(0) and Validators.max(limit) on a control value.
OutOfRange(value, limit) ==
    LET num == parseFloat(value)
    IN  /\ value.t # "null"
        /\ value # JsString("")
        /\ \/ num.t = "Infinity"
           \/ num.t = "number" /\ (num.n < 0 \/ num.n > limit * 1000)

\* form.invalid.
Invalid(f) ==
    \/ f.name.t # "string" \/ f.name.s = ""
    \/ OutOfRange(f.pricePerBox, 1000000)
    \/ OutOfRange(f.pricePerPod, 1000000)
    \/ OutOfRange(f.podsPerBox, 100000)

buildPayload(f) ==
    [name |-> Trim(f.name),
     pricePerBox |-> NumberOrZero(f.pricePerBox),
     pricePerPod |-> NumberOrZero(f.pricePerPod),
     podsPerBox |-> NumberOrZero(f.podsPerBox)]

\* onSave: what the store is left with and what it returned.
onSave(b, f) ==
    LET payload == buildPayload(f)
    IN  IF f.id # JsNull
        THEN updateFlavour(b, f.id, payload)
        ELSE addFlavour(b, [k \in Fields |->
                               IF k = "id" THEN JsUndefined ELSE payload[k]])

NameInputs == {JsString(""), JsString(" Lungo ")}
PriceInputs == {JsNumber(16), JsNumber(-5000), JsString("abc")}
PodsInputs == {JsNumber(0), JsNumber(4000)}

\* The route parameter: none, or the id of the first record created.
PageIds == {JsNull, GeneratedId(1)}

FormStep(op, result, f) ==
    /\ form' = f
    /\ last' = Event(op, 0, NoReq, NoWire, NoWire, result, << >>)
    /\ UNCHANGED <<storage, loggedIn, loading, errors, inflight, isNative>>
    /\ UNCHANGED <<errStore, now>>
    /\ UNCHANGED extVars

\* The page is opened from the list: manage-flavours or manage-flavours/:id.
OpenPage(id) ==
    /\ ~form.open
    /\ loggedIn
    /\ FormStep("ngOnInit", "none", ngOnInit(blob, id))
    /\ blob' = IF id = JsNull THEN blob ELSE ensureDb(blob).blob
    /\ nav' = canActivate(IF id = JsNull THEN "manage-flavours"
                          ELSE "manage-flavours/:id", loggedIn)
    /\ route' = nav'.target
    /\ UNCHANGED dbLast

SetValue(controlName, value) ==
    /\ form.open
    /\ FormStep("setValue", controlName, setValue(form, controlName, value))
    /\ UNCHANGED <<route, nav, blob, dbLast>>

FormatDecimal(controlName) ==
    /\ form.open
    /\ FormStep("formatDecimal", controlName, formatDecimal(form, controlName))
    /\ UNCHANGED <<route, nav, blob, dbLast>>

OnSave ==
    /\ form.open
    /\ form.id = JsNull => Len(getFlavours(blob)) < MaxSaved
    /\ IF Invalid(form)
       THEN /\ FormStep("onSave", "invalid", form)
            /\ UNCHANGED <<route, nav, blob, dbLast>>
       ELSE LET r == onSave(blob, form)
            IN  /\ FormStep("onSave", "saved", NoForm)
                /\ blob' = r.blob
                /\ dbLast' = [id |-> form.id, arg |-> buildPayload(form),
                              ret |-> r.ret, found |-> Has(blob, form.id),
                              raw |-> blob.kind]
                /\ nav' = canActivate("flavours", loggedIn)
                /\ route' = "flavours"

Open == \E id \in PageIds : OpenPage(id)

Edit ==
    \/ \E value \in NameInputs : SetValue("name", value)
    \/ \E value \in PriceInputs : SetValue("pricePerBox", value)
    \/ \E value \in PodsInputs : SetValue("podsPerBox", value)

Blur == \E controlName \in {"pricePerBox", "pricePerPod"} : FormatDecimal(controlName)

InitForm ==
    /\ storage = "1"
    /\ loggedIn = TRUE
    /\ loading = [isLoading |-> FALSE, operation |-> NoOperation]
    /\ errors = << >>
    /\ inflight = << >>
    /\ isNative = FALSE
    /\ last = Event("init", 0, NoReq, NoWire, NoWire, "none", << >>)
    /\ route = "flavours"
    /\ nav = canActivate("flavours", TRUE)
    /\ blob = MissingBlob
    /\ dbLast = NoCall
    /\ errStore = NoStoredErrors
    /\ now = 0
    /\ form = NoForm
    /\ ExtIdle

NextForm ==
    \/ Open
    \/ Edit
    \/ Blur
    \/ OnSave

SpecForm == InitForm /\ [][NextForm]_vars

----------------------------------------------------------------------------
(* BarcodeService.scan and ImageService.pick, called from the flavour      *)
(* page: each starts loading, waits for the scanner, the camera or the     *)
(* file dialog, and stops loading when it returns.                         *)

\* An asynchronous call of a service up to its first wait.
Started(op, operation) ==
    /\ form.open
    /\ op \notin busy
    /\ loading' = startLoading(operation)
    /\ busy' = busy \cup {op}
    /\ last' = Event(op, 0, NoReq, NoWire, NoWire, "none", << >>)
    /\ UNCHANGED <<storage, loggedIn, errors, inflight, isNative>>
    /\ UNCHANGED <<route, nav, blob, dbLast, errStore, now, form, request, generated>>

\* The rest of the call: the finally block stops loading, then the page
\* takes the result.
Returned(op, result, f) ==
    /\ op \in busy
    /\ loading' = stopLoading(loading)
    /\ busy' = busy \ {op}
    /\ form' = f
    /\ last' = Event(op, 0, NoReq, NoWire, NoWire, result, << >>)
    /\ UNCHANGED <<storage, loggedIn, errors, inflight, isNative>>
    /\ UNCHANGED <<route, nav, blob, dbLast, errStore, now, request, generated>>

\* ManageFlavourPage.onScan up to the wait inside BarcodeService.scan.
OnScan == Started("scan", "Scanning barcode")

\* scan returns a code or null; onScan patches the barcode in and
\* recalculates.
ScanReturns(code) ==
    Returned("scan", IF code THEN "code" ELSE "null",
             IF code /\ form.open THEN recalculatePricePerPod(form) ELSE form)

\* ManageFlavourPage.pickFrom up to the wait inside ImageService.pick.
PickFrom(source) ==
    Started("pick", IF source = "camera" THEN "Taking photo" ELSE "Choosing photo")

\* pick returns a photo or null; pickFrom keeps the photo.
PickReturns(res) ==
    Returned("pick", IF res THEN "photo" ELSE "null", form)

ScanDone == \E code \in BOOLEAN : ScanReturns(code)
Pick == \E source \in {"camera", "photos"} : PickFrom(source)
PickDone == \E res \in BOOLEAN : PickReturns(res)

\* The flavour page with its scanner and its photo picker.
NextBusy ==
    \/ Open
    \/ Edit
    \/ OnScan
    \/ ScanDone
    \/ Pick
    \/ PickDone

SpecBusy == InitForm /\ [][NextBusy]_vars

----------------------------------------------------------------------------
(* LoginPage.submit and the text of the login request.  A string is the    *)
(* sequence of its characters; a placeholder of the template counts as     *)
(* one character.                                                          *)

\* Longest text typed into a field of the login form.
MaxText == 2

\* The character U+0022, which a string of this module cannot hold.
DoubleQuote == "U+0022"

\* The character U+0060.
Backtick == "U+0060"

\* String.replace(/c/g, r).
RECURSIVE ReplaceAll(_, _, _)
ReplaceAll(str, c, r) ==
    IF str = << >> THEN << >>
    ELSE (IF Head(str) = c THEN r ELSE <<Head(str)>>) \o ReplaceAll(Tail(str), c, r)

RECURSIVE trimStart(_)
trimStart(str) ==
    IF str # << >> /\ Head(str) = " " THEN trimStart(Tail(str)) ELSE str

RECURSIVE trimEnd(_)
trimEnd(str) ==
    IF str # << >> /\ str[Len(str)] = " "
    THEN trimEnd(SubSeq(str, 1, Len(str) - 1))
    ELSE str

\* String.trim().
trim(str) == trimEnd(trimStart(str))

\* InputSanitizer.sanitizeForSoap: the five replacements in the order of
\* the code, then trim.
sanitizeForSoap(input) ==
    IF input = << >> THEN << >>
    ELSE LET a == ReplaceAll(input, "&", <<"&", "a", "m", "p", ";">>)
             b == ReplaceAll(a, "<", <<"&", "l", "t", ";">>)
             c == ReplaceAll(b, ">", <<"&", "g", "t", ";">>)
             d == ReplaceAll(c, DoubleQuote, <<"&", "q", "u", "o", "t", ";">>)
             e == ReplaceAll(d, "'", <<"&", "#", "3", "9", ";">>)
         IN  trim(e)

\* String.replace(/\s+/g, '_').
RECURSIVE ReplaceSpaces(_)
ReplaceSpaces(str) ==
    IF str = << >> THEN << >>
    ELSE IF Head(str) = " " THEN <<"_">> \o ReplaceSpaces(trimStart(str))
    ELSE <<Head(str)>> \o ReplaceSpaces(Tail(str))

\* String.toLowerCase() on the letters that occur.
toLowerCase(str) ==
    [i \in DOMAIN str |->
        CASE str[i] = "A" -> "a"
          [] str[i] = "B" -> "b"
          [] str[i] = "O" -> "o"
          [] OTHER -> str[i]]

\* InputSanitizer.sanitizeUsername.
sanitizeUsername(input) ==
    IF input = << >> THEN << >>
    ELSE LET a == trim(input)
             b == SelectSeq(a, LAMBDA ch : ch \notin {"<", ">", "&", "'", DoubleQuote})
         IN  toLowerCase(ReplaceSpaces(b))

\* The replacement text of String.replace(pattern, replacement) for a
\* string pattern: $$ is $, $& the match, $ with a backtick the text
\* before the match and $ with an apostrophe the text after it.
RECURSIVE Expand(_, _, _, _)
Expand(replacement, match, before, after) ==
    IF replacement = << >> THEN << >>
    ELSE IF Head(replacement) = "$" /\ Len(replacement) >= 2
                /\ replacement[2] \in {"$", "&", Backtick, "'"}
    THEN (CASE replacement[2] = "$" -> <<"$">>
            [] replacement[2] = "&" -> match
            [] replacement[2] = Backtick -> before
            [] replacement[2] = "'" -> after)
            \o Expand(SubSeq(replacement, 3, Len(replacement)), match, before, after)
    ELSE <<Head(replacement)>> \o Expand(Tail(replacement), match, before, after)

\* str.replace(placeholder, replacement): the first occurrence only.
Replace(str, placeholder, replacement) ==
    LET I == {i \in DOMAIN str : str[i] = placeholder}
    IN  IF I = {} THEN str
        ELSE LET idx == CHOOSE i \in I : \A j \in I : i <= j
                 before == SubSeq(str, 1, idx - 1)
                 after == SubSeq(str, idx + 1, Len(str))
             IN  before \o Expand(replacement, <<placeholder>>, before, after) \o after

\* SOAP_CONFIG.TEMPLATES.LOGIN, the Login element of it: u and p stand for
\* the element names username and password.
LOGIN ==
    <<"<", "u", ">", "{{USERNAME}}", "<", "/", "u", ">",
      "<", "p", ">", "{{PASSWORD}}", "<", "/", "p", ">">>

\* The envelope AuthService.login builds.
Envelope(username, password) ==
    Replace(Replace(LOGIN, "{{USERNAME}}", username), "{{PASSWORD}}", password)

\* The characters typed into the form.
Chars == {"&", "<", ">", DoubleQuote, "'", "$", Backtick, " ", "A"}

\* O'Brien & <test>
OBrienTest ==
    <<"O", "'", "B", "r", "i", "e", "n", " ", "&", " ", "<", "t", "e", "s", "t", ">">>

TextInputs ==
    UNION {[1..n -> Chars] : n \in 0..MaxText} \cup {OBrienTest}

\* LoginPage.submit with the form holding request.username and
\* request.password: nothing when the form is invalid (a required field
\* empty) or something is loading, else the sanitised values go to
\* AuthService.login, which clears the errors, starts loading and sends
\* the envelope.
SubmitForm ==
    IF request.username = << >> \/ request.password = << >> \/ loading.isLoading
    THEN /\ last' = Event("submitIgnored", 0, NoReq, NoWire, NoWire, "none", << >>)
         /\ UNCHANGED <<storage, loggedIn, loading, errors, inflight, isNative>>
         /\ UNCHANGED appVars
    ELSE /\ Cardinality(DOMAIN inflight) < MaxInFlight
         /\ LET id  == CHOOSE i \in Ids : i \notin DOMAIN inflight
                req == [attempts |-> 1, concurrent |-> DOMAIN inflight # {}]
                sanitizedUsername == sanitizeUsername(request.username)
                sanitizedPassword == sanitizeForSoap(request.password)
            IN  /\ errors' = clearErrors(errors)
                /\ loading' = startLoading("Authenticating...")
                /\ inflight' = [i \in DOMAIN inflight \cup {id} |->
                                   IF i = id THEN req ELSE inflight[i]]
                /\ request' = [request EXCEPT
                                  !.body = Envelope(sanitizedUsername, sanitizedPassword)]
                /\ last' = Event("login", id, req, NoWire, NoWire, "none", << >>)
         /\ UNCHANGED <<storage, loggedIn, isNative>>
         /\ UNCHANGED <<route, nav, blob, dbLast, errStore, now, form, busy, generated>>

\* The login page with its form filled in.
InitSoap ==
    /\ storage \in {Absent, "0"}
    /\ loggedIn = getFromStorage(storage)
    /\ loading = [isLoading |-> FALSE, operation |-> NoOperation]
    /\ errors = << >>
    /\ inflight = << >>
    /\ isNative = FALSE
    /\ last = Event("init", 0, NoReq, NoWire, NoWire, "none", << >>)
    /\ route = "login"
    /\ nav = canActivate("login", loggedIn)
    /\ blob = MissingBlob
    /\ dbLast = NoCall
    /\ errStore = NoStoredErrors
    /\ now = 0
    /\ form = NoForm
    /\ busy = {}
    /\ generated = NoId
    /\ \E username, password \in TextInputs :
          /\ username = <<"A">> \/ password = <<"A">>
          /\ request = [username |-> username, password |-> password, body |-> << >>]

NextSoap == SubmitForm

SpecSoap == InitSoap /\ [][NextSoap]_vars

----------------------------------------------------------------------------
(* Properties.                                                             *)

Flag(b) == IF b THEN "1" ELSE "0"

\* The handlers that change the session.
SessionOps == {"loginDone", "logout", "updateAuthState"}

\* A response body whose LoginResult element reads `text`.
HasResult(w, text) ==
    w.kind = "body" /\ w.xml \in NodeKinds /\ TrimLower(w.text) = text

\* A login outcome that is not a success.
Failing(w) == w.kind = "error" \/ (w.kind = "body" /\ ~HasResult(w, "true"))

\* C1: after login (success or failure), logout or updateAuthState has run,
\* and at every notification of the isLoggedIn$ observers, the in-memory
\* flag equals the persisted one: the item is '1' exactly when the flag is
\* true and '0' exactly when it is false.
C1_SessionConsistent ==
    /\ getFromStorage(storage) = loggedIn
    /\ last.op \in SessionOps => storage = Flag(loggedIn)
    /\ \A i \in DOMAIN last.notified :
          /\ last.notified[i].persisted = Flag(last.notified[i].sync)
          /\ last.notified[i].value = last.notified[i].sync

C1_Witness ==
    /\ last.op = "loginDone"
    /\ last.notified # << >>
    /\ loggedIn
    /\ storage = "1"

\* C2: at most one login is pending at any time; a login called while
\* another is pending is rejected and sends no request.
C2_OneLoginInFlight ==
    /\ Cardinality(DOMAIN inflight) <= 1
    /\ (last.op = "login" /\ last.concurrent) => last.attempts = 0

\* C3: a login called while another is pending neither clears the error
\* list nor appends to it.
C3_RejectedLoginKeepsErrors ==
    [][(last'.op \in {"login", "loginDone"} /\ last'.concurrent)
          => errors' = errors]_vars

\* C4: a login answered with a LoginResult of 'true' ends authenticated
\* (in memory true, persisted '1'), delivers true, has loading cleared and
\* leaves no typed error in the list.
C4_LoginTrue ==
    (last.op = "loginDone" /\ HasResult(last.wire, "true"))
       => /\ loggedIn
          /\ storage = "1"
          /\ last.result = "true"
          /\ ~loading.isLoading
          /\ errors = << >>

C4_Witness ==
    /\ last.op = "loginDone"
    /\ HasResult(last.wire, "true")
    /\ last.wire.xml = "nsPrefixed"
    /\ loggedIn

\* C5: a login answered with a LoginResult of 'false' ends unauthenticated
\* (in memory false, persisted '0'), delivers false and leaves exactly one
\* typed error, of kind 'authentication', in the list.
C5_LoginFalse ==
    (last.op = "loginDone" /\ HasResult(last.wire, "false"))
       => /\ ~loggedIn
          /\ storage = "0"
          /\ last.result = "false"
          /\ Len(errors) = 1
          /\ errors[1].type = "authentication"

C5_Witness ==
    /\ last.op = "loginDone"
    /\ HasResult(last.wire, "false")
    /\ errors = <<AuthenticationError>>

\* C6: a login whose transport fails with status 0 on every attempt sends
\* RETRY_ATTEMPTS + 1 requests and then fails with a 'network' error and the
\* session unauthenticated.
C6_RetriesExhausted ==
    (last.op = "loginDone" /\ last.wire.kind = "error" /\ last.wire.status = 0
        /\ last.retry = HttpError(0))
       => /\ last.attempts = RETRY_ATTEMPTS + 1
          /\ ~loggedIn
          /\ \E i \in DOMAIN errors : errors[i].type = "network"

\* C7: a login whose first attempt fails with status 0 and whose retry is
\* answered 'true' ends authenticated with no typed error recorded.
C7_RetrySucceeds ==
    (last.op = "loginDone" /\ last.wire.kind = "error" /\ last.wire.status = 0
        /\ HasResult(last.retry, "true"))
       => /\ loggedIn
          /\ storage = "1"
          /\ \A i \in DOMAIN errors : errors[i].type # "network"

C10_Logout ==
    /\ [](ENABLED Logout)
    /\ [][last'.op = "logout"
            => /\ ~loggedIn'
               /\ storage' = "0"
               /\ last'.notified = <<Notification(FALSE, FALSE, "0")>>
               /\ inflight' = inflight
               /\ errors' = errors
               /\ loading' = loading]_vars

C10_Witness ==
    /\ last.op = "logout"
    /\ storage = "0"
    /\ inflight # << >>
    /\ loading.isLoading

\* C11: the guard lets a protected route (flavours, manage-flavours,
\* manage-flavours/:id) be activated exactly when the session is
\* authenticated at the time of the check; otherwise it refuses and the
\* router goes to /login, so no protected route is activated while the
\* session is unauthenticated.
C11_GuardFollowsSession ==
    [][(last'.op = "navigate" /\ nav'.target \in ProtectedRoutes)
          => /\ nav'.allow = loggedIn
             /\ loggedIn => route' = nav'.target
             /\ ~loggedIn => (route' = "login" /\ nav'.redirect = "login")
             /\ route' \in ProtectedRoutes => loggedIn']_vars

C11_Witness ==
    /\ last.op = "navigate"
    /\ nav.target = "manage-flavours/:id"
    /\ ~nav.allow
    /\ route = "login"
    /\ ~loggedIn
    /\ storage = "0"

\* The failures the specification calls retryable: status 0, a 5xx status,
\* or a timeout.
Retryable(w) ==
    w.kind = "error" /\ (w.status = 0 \/ w.status >= 500 \/ w.name = "TimeoutError")

\* C18: a failed first attempt of a login is followed by a further attempt
\* exactly when the failure is status 0, a 5xx status or a timeout (attempts
\* remain after the first one); a 4xx failure ends the login after a single
\* request.
C18_RetryExactlyWhenRetryable ==
    (last.op = "loginDone" /\ last.wire.kind = "error" /\ ~isNative)
       => ((last.attempts > 1) <=> Retryable(last.wire))

\* A value that getFlavour returns for an identifier it found.
IsRecord(v) == DOMAIN v = Fields

NonEmptyString(v) == v.t = "string" /\ v.s # ""

Others(db, id) == SelectSeq(db, LAMBDA f : f.id # id)

\* C12: the record addFlavour returns has a non-empty id, the supplied one
\* when a non-empty id was supplied, and getFlavour of that id then returns
\* a record equal to the returned one.
C12_AddThenGet ==
    last.op = "addFlavour"
       => /\ NonEmptyString(dbLast.ret.id)
          /\ NonEmptyString(dbLast.arg.id) => dbLast.ret.id = dbLast.arg.id
          /\ getFlavour(blob, dbLast.ret.id) = dbLast.ret

\* C13: no two records of the collection have the same id.
C13_UniqueIds ==
    \A i, j \in DOMAIN getFlavours(blob) :
        getFlavours(blob)[i].id = getFlavours(blob)[j].id => i = j

\* C14: updateFlavour(id, partial) on an existing id changes exactly the
\* fields of partial: getFlavour(id) afterwards has the new values in those
\* fields and the old values in the others, and the other records and the
\* order of the collection are as before.
C14_UpdateChangesOnlyGivenFields ==
    [][(last'.op = "updateFlavour" /\ dbLast'.found)
          => LET before == getFlavours(blob)
                 after  == getFlavours(blob')
                 idx    == findIndex(before, dbLast'.id)
                 got    == getFlavour(blob', dbLast'.id)
             IN  /\ IsRecord(got)
                 /\ \A f \in Fields :
                       got[f] = IF f \in DOMAIN dbLast'.arg
                                THEN dbLast'.arg[f]
                                ELSE before[idx][f]
                 /\ Len(after) = Len(before)
                 /\ \A i \in DOMAIN before \ {idx} : after[i] = before[i]]_vars

C16_ItemHoldsCollection ==
    [][LET before == getFlavours(blob)
           after  == getFlavours(blob')
           idx    == findIndex(before, dbLast'.id)
       IN  /\ last'.op = "addFlavour"
                 => after = Append(before, JsonRecord(dbLast'.ret))
           /\ (last'.op = "updateFlavour" /\ dbLast'.found)
                 => after = [before EXCEPT ![idx] = JsonRecord(dbLast'.ret)]
           /\ last'.op = "deleteFlavour" => after = Others(before, dbLast'.id)
           /\ last'.op = "clearAll" => after = << >>
           /\ last'.op \in {"addFlavour", "deleteFlavour", "clearAll"}
                 => blob' = writeDb(after)]_vars

C16_Witness ==
    /\ last.op = "updateFlavour"
    /\ dbLast.found
    /\ dbLast.arg = [name |-> JsString("X")]
    /\ Len(getFlavours(blob)) >= 2
    /\ getFlavours(blob)[2] = JsonRecord(dbLast.ret)

\* A non-negative finite number.
NonNegativeFinite(v) == v.t = "number" /\ v.n >= 0

\* C20: pricePerBox, pricePerPod and podsPerBox of every stored record are
\* non-negative finite numbers.
C20_NumericFieldsClean ==
    \A i \in DOMAIN getFlavours(blob) :
        \A f \in {"pricePerBox", "pricePerPod", "podsPerBox"} :
            NonNegativeFinite(getFlavours(blob)[i][f])

\* C17: when the error list is loaded from storage, a persisted list older
\* than the retention window is discarded (the list is empty and the item
\* removed), and a younger one is restored whole: every error, in its
\* order, with the timestamp it had.
C17_LoadWithinWindow ==
    [][(last'.op = "loadPersistedErrors" /\ errStore.kind = "state")
          => LET age == now - errStore.timestamp
             IN  /\ age > ERROR_PERSISTENCE_DURATION
                       => (errors' = << >> /\ errStore' = NoStoredErrors)
                 /\ age < ERROR_PERSISTENCE_DURATION
                       => /\ errors' = errors
                          /\ Len(errors') = Len(errStore.errors)
                          /\ \A i \in DOMAIN errors' :
                                toJSON(errors'[i].timestamp) = errStore.errors[i].timestamp]_vars

C17_Witness ==
    /\ last.op = "loadPersistedErrors"
    /\ Len(errors) = 2
    /\ errors[1].timestamp # errors[2].timestamp
    /\ now > errors[2].timestamp.date
    /\ errStore.kind = "state"

\* pricePerPod is pricePerBox / podsPerBox rounded to 2 decimal places when
\* podsPerBox > 0, and 0 when podsPerBox is 0 or not a number.
Derived(pricePerBox, podsPerBox, pricePerPod) ==
    Number(pricePerPod) = PricePerPod(NumberOrZero(pricePerBox), NumberOrZero(podsPerBox))

\* C19: after pricePerBox or podsPerBox of the flavour form has changed,
\* pricePerPod is the rounded quotient (0 without pods), and the record
\* onSave stores has a pricePerPod in that relation to its pricePerBox and
\* podsPerBox.
C19_PricePerPodDerived ==
    /\ (form.open /\ last.op \in {"setValue", "formatDecimal"}
           /\ last.result \in {"pricePerBox", "podsPerBox"})
          => Derived(form.pricePerBox, form.podsPerBox, form.pricePerPod)
    /\ (last.op = "onSave" /\ last.result = "saved" /\ DOMAIN dbLast.ret = Fields)
          => Derived(dbLast.ret.pricePerBox, dbLast.ret.podsPerBox,
                     dbLast.ret.pricePerPod)

\* The calls of the record store that take an identifier.
ById == {"getFlavour", "updateFlavour", "deleteFlavour"}

\* C21: a record's id never changes: after updateFlavour(id, partial) on an
\* existing id, also with a partial that carries another id, the record
\* returned has the id it had and getFlavour(id) still finds it.
C21_IdImmutable ==
    [][(last'.op = "updateFlavour" /\ dbLast'.found)
          => /\ IsRecord(dbLast'.ret)
             /\ dbLast'.ret.id = dbLast'.id
             /\ IsRecord(getFlavour(blob', dbLast'.id))
             /\ [i \in DOMAIN getFlavours(blob') |-> getFlavours(blob')[i].id]
                   = [i \in DOMAIN getFlavours(blob) |-> getFlavours(blob)[i].id]]_vars

\* C22: getFlavour, updateFlavour and deleteFlavour called with an id that
\* is not in the collection return normally, getFlavour and updateFlavour
\* with undefined, and leave the contents and the order of the collection
\* as they were.
C22_NotFoundChangesNothing ==
    [][(last'.op \in ById /\ ~dbLast'.found)
          => /\ dbLast'.ret = JsUndefined
             /\ getFlavours(blob') = getFlavours(blob)
             /\ blob'.kind = "db"]_vars

C22_Witness ==
    /\ last.op = "updateFlavour"
    /\ ~dbLast.found
    /\ dbLast.raw = "db"
    /\ dbLast.id = JsString("b")
    /\ Len(getFlavours(blob)) = 2

\* C23: a call of the record store that finds the item missing, not
\* parseable or without a Flavours array works on an empty collection and
\* leaves a valid item behind: the empty collection, or after addFlavour
\* the collection of exactly the added record.
C23_CorruptItemHeals ==
    [][(last'.op \in ById \cup {"addFlavour", "clearAll"} /\ dbLast'.raw # "db")
          => /\ blob'.kind = "db"
             /\ ~dbLast'.found
             /\ last'.op = "addFlavour"
                   => /\ IsRecord(dbLast'.ret)
                      /\ getFlavours(blob') = <<JsonRecord(dbLast'.ret)>>
             /\ last'.op # "addFlavour"
                   => /\ getFlavours(blob') = << >>
                      /\ dbLast'.ret = JsUndefined]_vars

C23_Witness ==
    /\ last.op = "addFlavour"
    /\ dbLast.raw = "corrupt"
    /\ Len(getFlavours(blob)) = 1
    /\ blob.kind = "db"

\* C24: a list loaded from storage holds no error whose own timestamp is
\* more than the retention window before the load, whatever calls came
\* before the list was persisted.
C24_NoStaleErrorAfterLoad ==
    last.op = "loadPersistedErrors"
       => \A i \in DOMAIN errors :
             now - errors[i].timestamp.date <= ERROR_PERSISTENCE_DURATION

C26_TimeoutIsTimeoutKind ==
    (last.op = "loginDone" /\ last.wire.name = "TimeoutError")
       => /\ last.result = "false"
          /\ ~loggedIn
          /\ storage = "0"
          /\ Len(errors) >= 1
          /\ errors[Len(errors)].type = "timeout"

\* The shape of a version-4 UUID: 36 characters, hyphens at 9, 14, 19 and
\* 24, hexadecimal digits elsewhere, 4 at 15 and one of 8, 9, a, b at 20.
IsUuidV4(text) ==
    /\ Len(text) = 36
    /\ \A i \in 1..36 :
          IF i \in {9, 14, 19, 24} THEN text[i] = "-"
          ELSE \E d \in DOMAIN HexDigits : text[i] = HexDigits[d]
    /\ text[15] = "4"
    /\ text[20] \in {"8", "9", "a", "b"}

\* C27: the identifier addFlavour generates for a record without id has
\* the shape of a version-4 UUID, whatever the random source returns.
C27_GeneratedIdIsUuid ==
    generated # NoId => IsUuidV4(generated.text)

\* Every one of & < > " ' replaced by its entity, the other characters
\* kept.
XmlEscape(str) ==
    IF str = << >> THEN << >>
    ELSE LET Entity(ch) ==
                 CASE ch = "&" -> <<"&", "a", "m", "p", ";">>
                   [] ch = "<" -> <<"&", "l", "t", ";">>
                   [] ch = ">" -> <<"&", "g", "t", ";">>
                   [] ch = DoubleQuote -> <<"&", "q", "u", "o", "t", ";">>
                   [] ch = "'" -> <<"&", "#", "3", "9", ";">>
                   [] OTHER -> <<ch>>
             Rest[i \in 1..(Len(str) + 1)] ==
                 IF i > Len(str) THEN << >> ELSE Entity(str[i]) \o Rest[i + 1]
         IN  Rest[1]

\* An escaped text as it is, trimmed, or trimmed with its white space and
\* its letters normalised as the login page normalises a username.
Normalised(str) ==
    {str, trim(str), toLowerCase(ReplaceSpaces(trim(str)))}

\* The template with the two texts in the places of the placeholders.
Filled(username, password) ==
    <<"<", "u", ">">> \o username \o <<"<", "/", "u", ">", "<", "p", ">">>
        \o password \o <<"<", "/", "p", ">">>

\* C28: the username and the password that go into the envelope of a login
\* request have every & < > " ' replaced by its entity (the ampersand
\* first, so that no entity is escaped again) and hold none of them raw;
\* escaping O'Brien & <test> gives O&#39;Brien &amp; &lt;test&gt;.
C28_EnvelopeIsEscaped ==
    /\ sanitizeForSoap(OBrienTest)
          = <<"O", "&", "#", "3", "9", ";", "B", "r", "i", "e", "n", " ",
              "&", "a", "m", "p", ";", " ", "&", "l", "t", ";", "t", "e", "s", "t",
              "&", "g", "t", ";">>
    /\ request.body # << >>
          => \E u \in Normalised(XmlEscape(request.username)),
                p \in Normalised(XmlEscape(request.password)) :
                request.body = Filled(u, p)

\* C29: a logout is not undone by a login that was started before it: when
\* a pending login completes right after a logout, the session is
\* unauthenticated, in memory and in storage.
C29_LogoutNotUndone ==
    [][(last.op = "logout" /\ last'.op = "loginDone")
          => (~loggedIn' /\ storage' = "0")]_vars

\* C30: the loading indicator is on as long as a login, a scan or a pick
\* that started loading has not finished.
C30_LoadingWhileBusy ==
    (inflight # << >> \/ busy # {}) => loading.isLoading

====
